---- MODULE Spec2Model ----
(***************************************************************************)
(* Model of attest-tools: the enrollment server accept loop                *)
(* (src/src/attest_ra_server.c), the enrollment client's send_receive      *)
(* (src/src/attest_ra_client.c) and the helpers of src/libs/util.c they     *)
(* rest on (attest_util_rw_buf, attest_util_check_mask).                   *)
(*                                                                         *)
(* The specifications of the module:                                       *)
(*   SpecMask  attest_util_check_mask applied to bounded masks             *)
(*   SpecRw    the retry loop of attest_util_rw_buf, one syscall per step  *)
(*   Spec      one server process, and peers that connect to it            *)
(*   SpecCli   main() of the enrollment client, one call per step          *)
(*   SpecStart the server's start-up, with the parsing of --pcr-list       *)
(*   SpecPcr   attest_util_parse_pcr_list applied to bounded lists         *)
(*   SpecTls   the TLS client's side-channel exchange and handshake        *)
(***************************************************************************)
EXTENDS Integers, Sequences, FiniteSets, TLC

(***************************************************************************)
(* errno values used by the code (negated on return).                      *)
(***************************************************************************)
ENOENT == 2
EIO == 5
ENOMEM == 12
EINVAL == 22

(***************************************************************************)
(* size_t arithmetic is modular.  The width is scaled down from 2^64 so    *)
(* that the values fit the checker's integers; every length of the model   *)
(* is far below SizeMod \div 2, so a value at or above SizeMod \div 2 is   *)
(* always the result of a wrap-around.                                     *)
(***************************************************************************)
SizeMod == 65536

ToSizeT(v) == v % SizeMod

\* sizeof(size_t) and sizeof(int) on the LP64 targets the tools build for
SizeofLen == 8
SizeofOp == 4

(***************************************************************************)
(* Bounds of the model.                                                    *)
(***************************************************************************)
MaxMaskLen == 2
MaxBufLen == 3
MaxSyscalls == 4

\* byte values the masks are drawn from (0b000, 0b100, 0b101, 0b111)
ByteVals == {0, 4, 5, 7}

Min(a, b) == IF a < b THEN a ELSE b
Max(a, b) == IF a < b THEN b ELSE a

SeqsUpTo(S, n) == UNION {[1..k -> S] : k \in 0..n}

\* bitwise and of two bytes
RECURSIVE BitAnd(_, _)
BitAnd(a, b) ==
    IF a = 0 \/ b = 0 THEN 0
    ELSE (a % 2) * (b % 2) + 2 * BitAnd(a \div 2, b \div 2)

(***************************************************************************)
(* attest_util_check_mask, src/libs/util.c:364-381.                        *)
(* mem is the memory at mask_in: the mask_in_len bytes of the mask         *)
(* followed by whatever lies behind the array (the loop indexes mask_in up *)
(* to mask_ref_len - 1, whatever mask_in_len is).  The result carries the  *)
(* return code and the set of indices at which mask_in was read.           *)
(***************************************************************************)
RECURSIVE check_mask_loop(_, _, _, _, _, _)
check_mask_loop(i, mask_in_len, mem, mask_ref_len, mask_ref, reads) ==
    IF ~(i < mask_ref_len) THEN [rc |-> 0, reads |-> reads]
    ELSE IF i > mask_in_len /\ mask_ref[i + 1] # 0
         THEN [rc |-> -ENOENT, reads |-> reads]
    ELSE IF BitAnd(mem[i + 1], mask_ref[i + 1]) # mask_ref[i + 1]
         THEN [rc |-> -ENOENT, reads |-> reads \cup {i}]
    ELSE check_mask_loop(i + 1, mask_in_len, mem, mask_ref_len, mask_ref,
                         reads \cup {i})

attest_util_check_mask(mask_in_len, mem, mask_ref_len, mask_ref) ==
    IF mask_in_len > mask_ref_len THEN [rc |-> -EINVAL, reads |-> {}]
    ELSE check_mask_loop(0, mask_in_len, mem, mask_ref_len, mask_ref, {})

(***************************************************************************)
(* attest_util_rw_buf, src/libs/util.c:163-182.                            *)
(* rw_iter is one pass of the loop body for the value ret returned by      *)
(* read()/write(): the value is stored in the size_t cur_processed, so -1  *)
(* becomes SIZE_MAX and the test cur_processed <= 0 is true for 0 only.    *)
(***************************************************************************)
rw_iter(processed, ret) ==
    LET cur_processed == ToSizeT(ret)
    IN  IF cur_processed <= 0
        THEN [returned |-> TRUE, rc |-> -EIO, processed |-> processed]
        ELSE [returned |-> FALSE, rc |-> 0,
              processed |-> ToSizeT(processed + cur_processed)]

\* the loop condition of line 168
rw_more(processed, buf_len) == processed < buf_len

\* the whole call for the sequence rets of values the syscalls return, in
\* order; calls is the number of syscalls made before the call returned
\* (the call has not returned when rets runs out while the loop goes on:
\* then returned is FALSE)
RECURSIVE rw_loop(_, _, _, _)
rw_loop(processed, buf_len, rets, calls) ==
    IF ~rw_more(processed, buf_len)
    THEN [returned |-> TRUE, rc |-> 0, processed |-> processed,
          calls |-> calls]
    ELSE IF rets = <<>>
    THEN [returned |-> FALSE, rc |-> 0, processed |-> processed,
          calls |-> calls]
    ELSE LET it == rw_iter(processed, Head(rets))
         IN  IF it.returned
             THEN [returned |-> TRUE, rc |-> it.rc,
                   processed |-> it.processed, calls |-> calls + 1]
             ELSE rw_loop(it.processed, buf_len, Tail(rets), calls + 1)

attest_util_rw_buf(buf_len, rets) == rw_loop(0, buf_len, rets, 0)

VARIABLES mk, rw, srv, cli, net, env

vars == <<mk, rw, srv, cli, net, env>>

(***************************************************************************)
(* SpecMask: the inputs of one call of attest_util_check_mask and, once    *)
(* the call was made, its result.                                          *)
(***************************************************************************)
RwIdle == [pc |-> "idle", op |-> "O_RDONLY", buf_len |-> 0, processed |-> 0,
           rc |-> 0, xfer |-> 0, failed |-> FALSE, calls |-> 0]

\* the variables of Spec, at rest while SpecMask or SpecRw runs
MainIdle ==
    /\ srv = [pc |-> "idle"]
    /\ cli = [pc |-> "idle"]
    /\ net = [st |-> "none"]
    /\ env = [nconn |-> 0, faults |-> 0]

MaskIdle == [pc |-> "idle", mask_in |-> <<>>, beyond |-> <<>>,
             mask_ref |-> <<>>, rc |-> 0, reads |-> {}]

InitMask ==
    /\ \E a \in SeqsUpTo(ByteVals, MaxMaskLen),
          r \in SeqsUpTo(ByteVals, MaxMaskLen) :
          \E b \in [1..Max(0, Len(r) - Len(a)) -> ByteVals] :
             mk = [pc |-> "call", mask_in |-> a, beyond |-> b,
                   mask_ref |-> r, rc |-> 0, reads |-> {}]
    /\ rw = RwIdle
    /\ MainIdle

MaskCall ==
    /\ mk.pc = "call"
    /\ LET res == attest_util_check_mask(Len(mk.mask_in),
                                         mk.mask_in \o mk.beyond,
                                         Len(mk.mask_ref), mk.mask_ref)
       IN  mk' = [mk EXCEPT !.pc = "done", !.rc = res.rc,
                            !.reads = res.reads]
    /\ UNCHANGED <<rw, srv, cli, net, env>>

NextMask == MaskCall

SpecMask == InitMask /\ [][NextMask]_vars

(***************************************************************************)
(* SpecRw: one call of attest_util_read_buf / attest_util_write_buf,       *)
(* one syscall per step.  xfer counts the bytes the syscalls really        *)
(* transferred, failed records that a syscall returned -1 or 0.            *)
(***************************************************************************)

InitRw ==
    /\ \E o \in {"O_RDONLY", "O_WRONLY"}, n \in 0..MaxBufLen :
          rw = [pc |-> "loop", op |-> o, buf_len |-> n, processed |-> 0,
                rc |-> 0, xfer |-> 0, failed |-> FALSE, calls |-> 0]
    /\ mk = MaskIdle
    /\ MainIdle

\* what read()/write() can return when asked for count bytes
SyscallRets(count) == {-1, 0} \cup 1..Min(count, MaxBufLen)

RwSyscall ==
    /\ rw.pc = "loop"
    /\ rw_more(rw.processed, rw.buf_len)
    /\ rw.calls < MaxSyscalls
    /\ \E ret \in SyscallRets(ToSizeT(rw.buf_len - rw.processed)) :
          LET it == rw_iter(rw.processed, ret)
          IN  rw' = [rw EXCEPT !.pc = IF it.returned THEN "done" ELSE "loop",
                               !.rc = it.rc,
                               !.processed = it.processed,
                               !.xfer = IF ret > 0 THEN @ + ret ELSE @,
                               !.failed = @ \/ ret <= 0,
                               !.calls = @ + 1]
    /\ UNCHANGED <<mk, srv, cli, net, env>>

RwReturn ==
    /\ rw.pc = "loop"
    /\ ~rw_more(rw.processed, rw.buf_len)
    /\ rw' = [rw EXCEPT !.pc = "done", !.rc = 0]
    /\ UNCHANGED <<mk, srv, cli, net, env>>

NextRw == RwSyscall \/ RwReturn

SpecRw == InitRw /\ [][NextRw]_vars

(***************************************************************************)
(* Spec: the enrollment server's accept loop and the peers that connect    *)
(* to it.  A connection is two byte queues; a peer is the enrollment       *)
(* client's send_receive, or a raw peer that sends arbitrary bytes and     *)
(* shuts down; send_receive may also talk to a stand-in server that        *)
(* answers with arbitrary bytes.                                           *)
(***************************************************************************)
MaxMsgLen == 1
MaxConns == 2
MaxFaults == 1

\* request payloads: the strings "", "a", "ab", ... (each position holds
\* its own character, so that a shifted or cut payload shows); handler
\* output: "", "x", "xy", ...
Text(first, n) == [i \in 1..n |-> first + i - 1]
Messages == {Text(97, n) : n \in 0..MaxMsgLen}
OutMessages == {Text(120, n) : n \in 0..MaxMsgLen}

\* len and op of the server's main() are not initialised, and at the next
\* accept() they hold what the connection before left in them.  Neither
\* is tracked: Unknown marks the variable from accept() until
\* attest_util_read_buf has dealt with it, and Held gives the values it may
\* turn out to hold when the read did not store all of its bytes (S is a
\* length below the header size and one above it, or a known and an
\* unknown opcode)
Unknown == -1
Held(v, S) == IF v = Unknown THEN S ELSE {v}

Take(s, n) == SubSeq(s, 1, Min(n, Len(s)))
Drop(s, n) == SubSeq(s, Min(n, Len(s)) + 1, Len(s))
Overwrite(buf, bytes) ==
    [i \in 1..Len(buf) |-> IF i <= Len(bytes) THEN bytes[i] ELSE buf[i]]

\* the bytes of an integer object in memory (little-endian host), and back
RECURSIVE LeEncode(_, _)
LeEncode(v, n) ==
    IF n = 0 THEN <<>> ELSE <<v % 256>> \o LeEncode(v \div 256, n - 1)

RECURSIVE LeDecode(_)
LeDecode(bytes) ==
    IF bytes = <<>> THEN 0
    ELSE ToSizeT(Head(bytes) + 256 * LeDecode(Tail(bytes)))

RECURSIVE strlen(_)
strlen(s) == IF s = <<>> \/ Head(s) = 0 THEN 0 ELSE 1 + strlen(Tail(s))

\* the C string held by a buffer whose last byte is followed by a NUL
CStr(s) == Take(s, strlen(s))

RECURSIVE SumPos(_)
SumPos(rets) ==
    IF rets = <<>> THEN 0
    ELSE (IF Head(rets) > 0 THEN Head(rets) ELSE 0) + SumPos(Tail(rets))

(***************************************************************************)
(* What the syscalls of one attest_util_read_buf / attest_util_write_buf   *)
(* call return, as a sequence: all n bytes at once; end of file after the  *)
(* avail bytes a closed peer left; or an error (-1) on the first syscall.  *)
(* A read with fewer than n bytes queued and the peer still open blocks.   *)
(***************************************************************************)
ReadScripts(n, avail, eof, canfault) ==
    IF n = 0 THEN {<<>>}
    ELSE (IF avail >= n THEN {<<n>>} ELSE {})
         \cup (IF avail < n /\ eof
               THEN {IF avail > 0 THEN <<avail, 0>> ELSE <<0>>} ELSE {})
         \cup (IF canfault THEN {<<-1>>} ELSE {})

WriteScripts(n, canfault) ==
    IF n = 0 THEN {<<>>}
    ELSE {<<n>>} \cup (IF canfault THEN {<<-1>>, <<0>>} ELSE {})

\* the call's result: return code, bytes really transferred, whether a
\* syscall returned -1 or 0
IoRun(n, script) ==
    LET res == attest_util_rw_buf(n, script)
    IN  [returned |-> res.returned, rc |-> res.rc, xfer |-> SumPos(script),
         fault |-> \E i \in 1..Len(script) : script[i] <= 0,
         err |-> \E i \in 1..Len(script) : script[i] < 0]

(***************************************************************************)
(* The length arithmetic of the two ends.                                  *)
(***************************************************************************)
\* a plausible slip: the header counted as sizeof(len) + sizeof(op)
RequestLen_HeaderTwelve(message_in) ==
    ToSizeT(strlen(message_in) + SizeofLen + SizeofOp)

\* attest_ra_client.c:73-74
RequestLen(message_in) == ToSizeT(strlen(message_in) + SizeofLen * 2)

\* attest_ra_client.c:80
OpBytes(op) == LeEncode(op, SizeofOp)

\* a plausible slip: the header counted as sizeof(len) + sizeof(op)
PayloadLen_HeaderTwelve(len) == ToSizeT(len - (SizeofLen + SizeofOp))

\* attest_ra_server.c:226
PayloadLen(len) == ToSizeT(len - 2 * SizeofLen)

\* a plausible slip: the length is computed whatever rc is
ResponseLen_AnyRc(rc, len, message_out) ==
    ToSizeT(strlen(message_out) + SizeofLen + 1)

\* attest_ra_server.c:308-309
ResponseLen(rc, len, message_out) ==
    IF rc = 0 THEN ToSizeT(strlen(message_out) + SizeofLen + 1) ELSE len

\* a plausible slip: the sentinel test left out
IsSentinel_Never(len) == FALSE

\* attest_ra_client.c:93
IsSentinel(len) == len = 0

\* attest_ra_client.c:104 and attest_ra_server.c:320
BodyLen(len) == ToSizeT(len - SizeofLen)

\* a plausible slip: the result of a step of opcode 2 is not tested
StepFailed_Never(rc) == FALSE

\* attest_ra_server.c:268, 275, 281: the test that ends opcode 2 early
StepFailed(rc) == rc < 0

\* malloc never returns a block of PTRDIFF_MAX bytes or more
Allocatable(size) == size < SizeMod \div 2

NullPtr == [st |-> "null", size |-> 0, data |-> <<>>]
LivePtr(size, data) == [st |-> "live", size |-> size, data |-> data]

\* free(p): the state of the block afterwards; the pointer keeps its value
\* (what the freed block holds is of no account and is dropped)
Freed(st) == IF st = "null" THEN "null" ELSE "freed"

(***************************************************************************)
(* The connection.                                                         *)
(***************************************************************************)
NoConn == [st |-> "none", kind |-> "none", c2s |-> <<>>, s2c |-> <<>>,
           cli_closed |-> FALSE, srv_closed |-> FALSE]

CloseSrvSide(n) ==
    IF n.st = "none" \/ n.cli_closed THEN NoConn
    ELSE [n EXCEPT !.srv_closed = TRUE]

\* results of the enrollment library's handlers: 0 or a negative errno
HandlerRc == {0, -EINVAL}

SrvGhost0 == [sent |-> <<>>, total |-> -1, underflow |-> FALSE,
              calls |-> <<>>, io_fault |-> FALSE, wfault |-> FALSE,
              handled |-> "none", reads |-> 0]

CliIdle == [pc |-> "idle", op |-> 0, message_in |-> <<>>, len |-> 0,
            rc |-> 0, fd |-> "unset", message_out |-> NullPtr,
            closed_on |-> "none",
            gh |-> [sent |-> <<>>, got_len |-> -1, underflow |-> FALSE,
                    io_fault |-> FALSE]]

\* the server after a successful start-up (attest_ra_server.c:69-211):
\* len and op are not initialised, the pointers are NULL
SrvStarted ==
    [pc |-> "accept", len |-> Unknown, op |-> Unknown, rc |-> 0,
     fd |-> "unset", message_in |-> NullPtr, message_out |-> NullPtr,
     csr_str |-> "null", cert_str |-> "null", ca_cert_str |-> "null",
     hmac_key |-> "random", pcr_mask |-> <<0, 0, 0>>, verifier_flags |-> {},
     bad_free |-> FALSE, ub |-> FALSE, gh |-> SrvGhost0]

InitMain ==
    /\ srv = SrvStarted
    /\ cli = CliIdle
    /\ net = NoConn
    /\ env = [nconn |-> 0, faults |-> 0]
    /\ mk = MaskIdle
    /\ rw = RwIdle

CanFault == env.faults < MaxFaults
\* an injected error uses up the budget; end of file on a read does not
Charge(script, write) ==
    [env EXCEPT !.faults =
        IF \E i \in 1..Len(script) :
               script[i] < 0 \/ (write /\ script[i] = 0)
        THEN @ + 1 ELSE @]

(***************************************************************************)
(* The server's accept loop, attest_ra_server.c:213-332.                   *)
(***************************************************************************)
SrvReads(n) == ReadScripts(n, Len(net.c2s), net.cli_closed, CanFault)

\* line 214: accept() returns a connection
SrvAccept ==
    /\ srv.pc = "accept"
    /\ net.st = "pending"
    /\ net' = [net EXCEPT !.st = "open"]
    /\ srv' = [srv EXCEPT !.pc = "read_len", !.fd = "open",
                          !.gh = SrvGhost0]
    /\ UNCHANGED <<cli, env, mk, rw>>

\* lines 218-220: read total_length into len
SrvReadLen ==
    /\ srv.pc = "read_len"
    /\ \E sc \in SrvReads(SizeofLen), old \in Held(srv.len, {0, 17}) :
          LET io == IoRun(SizeofLen, sc)
              buf == Overwrite(LeEncode(old, SizeofLen),
                               Take(net.c2s, io.xfer))
          IN  /\ io.returned
              /\ srv' = [srv EXCEPT
                    !.len = LeDecode(buf),
                    !.rc = io.rc,
                    !.pc = IF io.rc # 0 THEN "out_free" ELSE "read_op",
                    !.gh.io_fault = @ \/ io.fault,
                    !.gh.reads = IF io.xfer = SizeofLen THEN @ + 1 ELSE @,
                    !.gh.total = IF io.xfer = SizeofLen
                                 THEN LeDecode(buf) ELSE -1]
              /\ net' = [net EXCEPT !.c2s = Drop(@, io.xfer)]
              /\ env' = Charge(sc, FALSE)
    /\ UNCHANGED <<cli, mk, rw>>

\* lines 222-224: read the opcode into op
SrvReadOp ==
    /\ srv.pc = "read_op"
    /\ \E sc \in SrvReads(SizeofOp), old \in Held(srv.op, {0, 5}) :
          LET io == IoRun(SizeofOp, sc)
              buf == Overwrite(LeEncode(old, SizeofOp),
                               Take(net.c2s, io.xfer))
          IN  /\ io.returned
              /\ srv' = [srv EXCEPT
                    !.op = LeDecode(buf),
                    !.rc = io.rc,
                    !.pc = IF io.rc # 0 THEN "out_free" ELSE "malloc",
                    !.gh.reads = IF io.xfer = SizeofOp THEN @ + 1 ELSE @,
                    !.gh.io_fault = @ \/ io.fault]
              /\ net' = [net EXCEPT !.c2s = Drop(@, io.xfer)]
              /\ env' = Charge(sc, FALSE)
    /\ UNCHANGED <<cli, mk, rw>>

\* the server process has ended: its descriptors are closed for it and its
\* memory is gone; what stays is how it ended and what went wrong before
Ended(s, how) ==
    [SrvStarted EXCEPT !.pc = how, !.fd = "closed", !.bad_free = s.bad_free,
                       !.ub = s.ub]

\* the server process dies (a fault the kernel catches)
Crashed(s) == Ended(s, "crashed")

\* lines 226-234: len -= 2 * sizeof(len); message_in = malloc(len + 1);
\* message_in[len] = '\0'.  When len + 1 wraps to 0 the store lands before
\* the block: undefined behaviour, the process dies or goes on.
SrvMalloc ==
    /\ srv.pc = "malloc"
    /\ LET l == PayloadLen(srv.len)
           size == ToSizeT(l + 1)
           g == [srv.gh EXCEPT !.underflow = srv.len < 2 * SizeofLen]
       IN  \/ /\ srv' = [srv EXCEPT !.len = 0, !.message_in = NullPtr,
                                    !.pc = "response", !.gh = g]
              /\ net' = net
           \/ /\ Allocatable(size)
              /\ l < size
              /\ srv' = [srv EXCEPT !.len = l,
                                    !.message_in = LivePtr(size, <<>>),
                                    !.pc = "read_payload", !.gh = g]
              /\ net' = net
           \/ /\ Allocatable(size)
              /\ ~(l < size)
              /\ \/ /\ srv' = [srv EXCEPT !.len = l,
                                    !.message_in = LivePtr(size, <<>>),
                                    !.pc = "read_payload", !.ub = TRUE,
                                    !.gh = g]
                    /\ net' = net
                 \/ /\ srv' = Crashed([srv EXCEPT !.len = l, !.ub = TRUE,
                                                  !.gh = g])
                    /\ net' = CloseSrvSide(net)
    /\ UNCHANGED <<cli, env, mk, rw>>

ResetOut_Kept(message_out) == message_out

\* line 242: message_out = NULL before the switch
ResetOut(message_out) == NullPtr

\* lines 236-246: read the payload, then reset len and the output pointers
SrvReadPayload ==
    /\ srv.pc = "read_payload"
    /\ \E sc \in SrvReads(srv.len) :
          LET io == IoRun(srv.len, sc)
              filled == Take(net.c2s, io.xfer)
              room == IF srv.message_in.size > 0
                      THEN srv.message_in.size - 1 ELSE 0
              missing == IF io.rc = 0 /\ room > Len(filled)
                         THEN room - Len(filled) ELSE 0
          IN  /\ io.returned
              \* junk: the bytes of the block that no read filled
              /\ \E junk \in [1..missing -> {0, 97}] :
                    srv' = [srv EXCEPT
                       !.rc = io.rc,
                       !.message_in.data = Take(filled, room) \o junk,
                       !.ub = @ \/ Len(filled) > room,
                       !.gh.reads = IF io.xfer = srv.len THEN @ + 1 ELSE @,
                       !.gh.io_fault = @ \/ io.fault,
                       !.pc = IF io.rc # 0 THEN "out_free" ELSE "dispatch",
                       !.len = IF io.rc # 0 THEN @ ELSE 0,
                       !.message_out = IF io.rc # 0 THEN @
                                       ELSE ResetOut(@),
                       !.csr_str = IF io.rc # 0 THEN @ ELSE "null",
                       !.cert_str = IF io.rc # 0 THEN @ ELSE "null",
                       !.ca_cert_str = IF io.rc # 0 THEN @ ELSE "null"]
              /\ net' = [net EXCEPT !.c2s = Drop(@, io.xfer)]
              /\ env' = Charge(sc, FALSE)
    /\ UNCHANGED <<cli, mk, rw>>

\* lines 308-309, reached by every break of the switch
Respond(s, rc, out) ==
    [s EXCEPT !.rc = rc, !.message_out = out,
              !.len = ResponseLen(rc, s.len, out.data),
              !.gh.handled = IF rc = 0 THEN "ok" ELSE "failed",
              !.pc = "response"]

Called_NewSecret(s, f, rc) ==
    [s EXCEPT !.gh.calls = Append(@, [f |-> f, rc |-> rc]),
              !.hmac_key = "regenerated"]

\* the handlers get hmac_key, pcr_mask and verifier_flags as arguments and
\* main assigns only their result
Called(s, f, rc) == [s EXCEPT !.gh.calls = Append(@, [f |-> f, rc |-> rc])]

\* a handler that returns its answer in message_out: 0 and a string, or a
\* negative errno and no string
SingleHandler(opcode, f) ==
    /\ srv.pc = "dispatch"
    /\ srv.op = opcode
    /\ \E r \in HandlerRc :
          \E out \in (IF r = 0 THEN {LivePtr(Len(m) + 1, m) : m \in OutMessages}
                      ELSE {NullPtr}) :
             srv' = Respond(Called(srv, f, r), r, out)
    /\ UNCHANGED <<cli, net, env, mk, rw>>

\* lines 249-254
SrvMakeCredential == SingleHandler(0, "attest_enroll_msg_make_credential")

\* lines 255-262
SrvMakeCert == SingleHandler(1, "attest_enroll_msg_make_cert")

\* lines 288-293
SrvGenQuoteNonce == SingleHandler(3, "attest_enroll_msg_gen_quote_nonce")

\* lines 294-302
SrvProcessQuote == SingleHandler(4, "attest_enroll_msg_process_quote")

\* lines 303-305
SrvUnknownOp ==
    /\ srv.pc = "dispatch"
    /\ srv.op \notin 0..4
    /\ srv' = Respond(srv, -EINVAL, srv.message_out)
    /\ UNCHANGED <<cli, net, env, mk, rw>>

\* lines 263-269: opcode 2, attest_enroll_msg_process_csr
SrvProcessCsr ==
    /\ srv.pc = "dispatch"
    /\ srv.op = 2
    /\ \E r \in HandlerRc :
          LET s == [Called(srv, "attest_enroll_msg_process_csr", r)
                       EXCEPT !.csr_str = IF r = 0 THEN "live" ELSE @]
          IN  srv' = IF StepFailed(r) THEN Respond(s, r, s.message_out)
                     ELSE [s EXCEPT !.rc = r, !.pc = "sign_csr"]
    /\ UNCHANGED <<cli, net, env, mk, rw>>

\* lines 271-276: attest_enroll_sign_csr
SrvSignCsr ==
    /\ srv.pc = "sign_csr"
    /\ \E r \in HandlerRc :
          LET s == [Called(srv, "attest_enroll_sign_csr", r)
                       EXCEPT !.cert_str = IF r = 0 THEN "live" ELSE @]
          IN  srv' = IF StepFailed(r) THEN Respond(s, r, s.message_out)
                     ELSE [s EXCEPT !.rc = r, !.pc = "read_ca_cert"]
    /\ UNCHANGED <<cli, net, env, mk, rw>>

\* lines 278-282: attest_util_read_seq_file(caCertPath, ...)
SrvReadCaCert ==
    /\ srv.pc = "read_ca_cert"
    /\ \E r \in HandlerRc :
          LET s == [Called(srv, "attest_util_read_seq_file", r)
                       EXCEPT !.ca_cert_str = IF r = 0 THEN "live" ELSE @]
          IN  srv' = IF StepFailed(r) THEN Respond(s, r, s.message_out)
                     ELSE [s EXCEPT !.rc = r, !.pc = "return_cert"]
    /\ UNCHANGED <<cli, net, env, mk, rw>>

\* lines 284-287: attest_enroll_msg_return_cert
SrvReturnCert ==
    /\ srv.pc = "return_cert"
    /\ \E r \in HandlerRc :
          \E out \in (IF r = 0 THEN {LivePtr(Len(m) + 1, m) : m \in OutMessages}
                      ELSE {NullPtr}) :
             srv' = Respond(Called(srv, "attest_enroll_msg_return_cert", r),
                            r, out)
    /\ UNCHANGED <<cli, net, env, mk, rw>>

\* lines 310-316: write len; a failed write leaves the loop at once
SrvWriteLen ==
    /\ srv.pc = "response"
    /\ \E sc \in WriteScripts(SizeofLen, CanFault) :
          LET io == IoRun(SizeofLen, sc)
              bytes == Take(LeEncode(srv.len, SizeofLen), io.xfer)
          IN  /\ io.returned
              /\ srv' = [srv EXCEPT
                    !.rc = io.rc,
                    !.pc = IF io.rc # 0 THEN "out"
                           ELSE IF srv.len # 0 THEN "write_payload"
                           ELSE "out_free",
                    !.gh.sent = @ \o bytes,
                    !.gh.wfault = @ \/ io.fault,
                    !.gh.io_fault = @ \/ io.fault]
              /\ net' = [net EXCEPT !.s2c = @ \o bytes]
              /\ env' = Charge(sc, TRUE)
    /\ UNCHANGED <<cli, mk, rw>>

\* lines 318-320: write len - sizeof(len) bytes of message_out
SrvWritePayload ==
    /\ srv.pc = "write_payload"
    /\ \E sc \in WriteScripts(BodyLen(srv.len), CanFault) :
          LET io == IoRun(BodyLen(srv.len), sc)
              bytes == Take(srv.message_out.data \o <<0>>, io.xfer)
          IN  /\ io.returned
              /\ srv' = [srv EXCEPT
                    !.rc = io.rc,
                    !.pc = "out_free",
                    !.gh.sent = @ \o bytes,
                    !.gh.wfault = @ \/ io.fault,
                    !.gh.io_fault = @ \/ io.fault]
              /\ net' = [net EXCEPT !.s2c = @ \o bytes]
              /\ env' = Charge(sc, TRUE)
    /\ UNCHANGED <<cli, mk, rw>>

\* lines 321-331: free the five pointers, close the connection, and leave
\* the loop when rc is not 0
SrvOutFree ==
    /\ srv.pc = "out_free"
    /\ srv' = [srv EXCEPT
          !.message_in = [NullPtr EXCEPT !.st = Freed(srv.message_in.st)],
          !.message_out = [NullPtr EXCEPT !.st = Freed(srv.message_out.st)],
          !.csr_str = Freed(@),
          !.cert_str = Freed(@),
          !.ca_cert_str = Freed(@),
          !.bad_free = @ \/ "freed" \in {srv.message_in.st,
                                          srv.message_out.st, srv.csr_str,
                                          srv.cert_str, srv.ca_cert_str},
          !.fd = "closed",
          !.len = Unknown,
          !.op = Unknown,
          !.gh = SrvGhost0,
          !.pc = IF srv.rc # 0 THEN "out" ELSE "accept"]
    /\ net' = CloseSrvSide(net)
    /\ UNCHANGED <<cli, env, mk, rw>>

\* lines 333-338: clean up and return from main; the kernel closes the
\* connection when the process ends
SrvOut ==
    /\ srv.pc = "out"
    /\ srv' = Ended(srv, "exited")
    /\ net' = IF srv.fd = "open" THEN CloseSrvSide(net) ELSE net
    /\ UNCHANGED <<cli, env, mk, rw>>

(***************************************************************************)
(* send_receive, attest_ra_client.c:37-110.                                *)
(***************************************************************************)
CliReads(n) == ReadScripts(n, Len(net.s2c), net.srv_closed, CanFault)

ServerUp == srv.pc \notin {"out", "exited", "crashed"}

\* lines 50-74: resolve the server name, connect, compute len.  peer says
\* who answers: the enrollment server or a stand-in.
CliConnect ==
    /\ cli.pc \in {"idle", "done"}
    /\ net.st = "none"
    /\ env.nconn < MaxConns
    \* the opcodes send_receive is called with; 5 stands for any unknown one
    /\ \E o \in 0..5, m \in Messages, peer \in {"client", "standin"} :
          /\ peer = "client" => ServerUp
          /\ cli' = [CliIdle EXCEPT !.pc = "write_len", !.op = o,
                                    !.message_in = m, !.fd = "open",
                                    !.len = RequestLen(m)]
          /\ net' = [NoConn EXCEPT
                        !.st = IF peer = "client" THEN "pending" ELSE "standin",
                        !.kind = peer]
    /\ env' = [env EXCEPT !.nconn = @ + 1]
    /\ UNCHANGED <<srv, mk, rw>>

\* lines 50-52 and 54-71: getaddrinfo fails (fd is still -1), or no address
\* could be connected: socket() failed (fd is -1) or the last connect()
\* failed and its socket was closed in the loop
CliConnectFail ==
    /\ cli.pc \in {"idle", "done"}
    /\ net.st = "none"
    /\ env.nconn < MaxConns
    /\ \E how \in {"getaddrinfo", "socket", "connect"} :
          cli' = [CliIdle EXCEPT
                     !.pc = "out",
                     !.rc = IF how = "getaddrinfo" THEN -2 ELSE -EIO,
                     !.fd = IF how = "connect" THEN "closed" ELSE "unset"]
    /\ env' = [env EXCEPT !.nconn = @ + 1]
    /\ UNCHANGED <<srv, net, mk, rw>>

CliWrite(pc, n, data, next) ==
    /\ cli.pc = pc
    /\ \E sc \in WriteScripts(n, CanFault) :
          LET io == IoRun(n, sc)
              bytes == Take(data, io.xfer)
          IN  /\ io.returned
              /\ cli' = [cli EXCEPT
                    !.rc = io.rc,
                    !.pc = IF io.rc # 0 THEN "out" ELSE next,
                    !.gh.sent = @ \o bytes,
                    !.gh.io_fault = @ \/ io.fault]
              /\ net' = [net EXCEPT !.c2s = @ \o bytes]
              /\ env' = Charge(sc, TRUE)
    /\ UNCHANGED <<srv, mk, rw>>

\* lines 76-78
CliWriteLen ==
    CliWrite("write_len", SizeofLen, LeEncode(cli.len, SizeofLen), "write_op")

\* lines 80-82
CliWriteOp == CliWrite("write_op", SizeofOp, OpBytes(cli.op), "write_payload")

\* lines 84-87
CliWritePayload ==
    CliWrite("write_payload", ToSizeT(cli.len - SizeofLen * 2),
             cli.message_in, "read_len")

\* lines 89-91
CliReadLen ==
    /\ cli.pc = "read_len"
    /\ \E sc \in CliReads(SizeofLen) :
          LET io == IoRun(SizeofLen, sc)
              buf == Overwrite(LeEncode(cli.len, SizeofLen),
                               Take(net.s2c, io.xfer))
          IN  /\ io.returned
              /\ cli' = [cli EXCEPT
                    !.len = LeDecode(buf),
                    !.rc = io.rc,
                    !.pc = IF io.rc # 0 THEN "out" ELSE "check_len",
                    !.gh.io_fault = @ \/ io.fault,
                    !.gh.got_len = IF io.xfer = SizeofLen
                                   THEN LeDecode(buf) ELSE -1]
              /\ net' = [net EXCEPT !.s2c = Drop(@, io.xfer)]
              /\ env' = Charge(sc, FALSE)
    /\ UNCHANGED <<srv, mk, rw>>

\* lines 93-104: reject the sentinel, allocate len bytes, len -= sizeof(len)
CliCheckLen ==
    /\ cli.pc = "check_len"
    /\ \/ /\ IsSentinel(cli.len)
          /\ cli' = [cli EXCEPT !.rc = -EINVAL, !.pc = "out"]
       \/ /\ ~IsSentinel(cli.len)
          /\ cli' = [cli EXCEPT !.rc = -ENOMEM, !.pc = "out"]
       \/ /\ ~IsSentinel(cli.len)
          /\ Allocatable(cli.len)
          /\ cli' = [cli EXCEPT
                !.message_out = LivePtr(cli.len, <<>>),
                !.len = BodyLen(cli.len),
                !.gh.underflow = cli.len < SizeofLen,
                !.pc = "read_payload"]
    /\ UNCHANGED <<srv, net, env, mk, rw>>

\* line 106
CliReadPayload ==
    /\ cli.pc = "read_payload"
    /\ \E sc \in CliReads(cli.len) :
          LET io == IoRun(cli.len, sc)
              filled == Take(net.s2c, io.xfer)
          IN  /\ io.returned
              /\ cli' = [cli EXCEPT
                    !.rc = io.rc,
                    !.message_out.data = Take(filled, cli.message_out.size),
                    !.gh.io_fault = @ \/ io.fault,
                    !.pc = "out"]
              /\ net' = [net EXCEPT !.s2c = Drop(@, io.xfer)]
              /\ env' = Charge(sc, FALSE)
    /\ UNCHANGED <<srv, mk, rw>>

\* lines 107-109: close(fd) and return rc
CliOut ==
    /\ cli.pc = "out"
    /\ cli' = [cli EXCEPT !.pc = "done", !.closed_on = cli.fd,
                          !.fd = IF cli.fd = "open" THEN "closed" ELSE @]
    /\ net' = IF cli.fd # "open" THEN net
              ELSE IF net.st = "none" \/ net.srv_closed THEN NoConn
              ELSE [net EXCEPT !.cli_closed = TRUE]
    /\ UNCHANGED <<srv, env, mk, rw>>

(***************************************************************************)
(* The other peers.                                                        *)
(***************************************************************************)
\* request frames of a raw peer: a total_length, an opcode and a payload
\* that need not agree, or a frame cut short
RawTotals == {0, 12, 15, 17}
RawFrames ==
    {<<>>, Take(LeEncode(16, SizeofLen), 5),
     LeEncode(17, SizeofLen) \o LeEncode(2, SizeofOp)}
    \cup {LeEncode(t, SizeofLen) \o LeEncode(2, SizeofOp) \o <<97>> :
             t \in RawTotals}

\* a peer connects, sends its bytes and shuts down
RawConnect ==
    /\ net.st = "none"
    /\ cli.pc \in {"idle", "done"}
    /\ env.nconn < MaxConns
    /\ ServerUp
    /\ \E f \in RawFrames :
          net' = [NoConn EXCEPT !.st = "pending", !.kind = "raw",
                                !.c2s = f, !.cli_closed = TRUE]
    /\ cli' = CliIdle
    /\ env' = [env EXCEPT !.nconn = @ + 1]
    /\ UNCHANGED <<srv, mk, rw>>

\* response frames of a stand-in server
RawResponses ==
    {<<>>, LeEncode(0, SizeofLen), LeEncode(5, SizeofLen),
     LeEncode(8, SizeofLen), LeEncode(10, SizeofLen) \o <<120, 0>>}

\* the stand-in takes the request once the client is through with writing
\* it, answers and closes; when the client has gone there is nobody to
\* answer
StandinReply ==
    /\ net.st = "standin"
    /\ ~net.srv_closed
    /\ \/ /\ net.cli_closed
          /\ net' = NoConn
       \/ /\ ~net.cli_closed
          /\ cli.pc = "read_len"
          /\ \E r \in RawResponses :
                net' = [net EXCEPT !.c2s = <<>>, !.s2c = r,
                                  !.srv_closed = TRUE]
    /\ UNCHANGED <<srv, cli, env, mk, rw>>

Next ==
    \/ SrvAccept \/ SrvReadLen \/ SrvReadOp \/ SrvMalloc \/ SrvReadPayload
    \/ SrvMakeCredential \/ SrvMakeCert \/ SrvProcessCsr \/ SrvSignCsr
    \/ SrvReadCaCert \/ SrvReturnCert \/ SrvGenQuoteNonce \/ SrvProcessQuote
    \/ SrvUnknownOp \/ SrvWriteLen \/ SrvWritePayload \/ SrvOutFree
    \/ SrvOut
    \/ CliConnect \/ CliConnectFail \/ CliWriteLen \/ CliWriteOp
    \/ CliWritePayload \/ CliReadLen \/ CliCheckLen \/ CliReadPayload
    \/ CliOut
    \/ RawConnect \/ StandinReply

Spec == InitMain /\ [][Next]_vars

(***************************************************************************)
(* SpecCli: main() of the enrollment client, attest_ra_client.c:161-373,   *)
(* one step per call it makes.  A call of send_receive is one step: w says *)
(* what the world does to it (name resolution, connect, the syscalls, and  *)
(* the bytes the peer sends before it closes).                             *)
(***************************************************************************)
EACCES == 13

\* enum request_types, attest_ra_client.c:158-159
RequestTypes == {"REQUEST_AK_CERT", "GENERATE_AK", "REQUEST_KEY_CERT",
                 "CREATE_SYM_KEY", "SEND_QUOTE", "REQUEST__LAST"}

\* what can happen to one send_receive call: wzero is the write call (1..3)
\* whose write() returns 0, rerr holds the read calls (1 the length, 2 the
\* payload) whose read() returns -1, nomem says that malloc returns NULL
CalmWorld == [gai |-> 0, conn |-> TRUE, wzero |-> 0, rerr |-> {},
              nomem |-> FALSE, reply |-> <<>>]

Worlds ==
    \* getaddrinfo fails with EAI_NONAME (-2), or connect fails
    {[CalmWorld EXCEPT !.gai = -2], [CalmWorld EXCEPT !.conn = FALSE]}
    \cup {[CalmWorld EXCEPT !.wzero = k] : k \in 1..3}
    \cup {[CalmWorld EXCEPT !.reply = r, !.rerr = e] :
             r \in RawResponses, e \in SUBSET {1, 2}}
    \cup {[CalmWorld EXCEPT !.reply = LeEncode(10, SizeofLen) \o <<120, 0>>,
                            !.nomem = TRUE]}

SrResult(rc, got_len, out, sent) ==
    [rc |-> rc, got_len |-> got_len, message_out |-> out, sent |-> sent]

\* the syscalls of a read of n bytes from the bytes a peer left before it
\* closed
EofScript(n, avail) == CHOOSE s \in ReadScripts(n, avail, TRUE, FALSE) : TRUE

\* attest_ra_client.c:37-110; message_out keeps the caller's value when
\* the function does not assign it
send_receive(op, message_in, old_out, w) ==
    IF w.gai # 0 THEN SrResult(w.gai, -1, old_out, <<>>)
    ELSE IF ~w.conn THEN SrResult(-EIO, -1, old_out, <<>>)
    ELSE
    LET len == RequestLen(message_in)
        parts == <<LeEncode(len, SizeofLen), OpBytes(op), message_in>>
        sizes == <<SizeofLen, SizeofOp, ToSizeT(len - SizeofLen * 2)>>
        W(k) == IoRun(sizes[k], IF sizes[k] = 0 THEN <<>>
                                ELSE IF w.wzero = k THEN <<0>>
                                ELSE <<sizes[k]>>)
        r1 == IoRun(SizeofLen, IF 1 \in w.rerr THEN <<-1>>
                               ELSE EofScript(SizeofLen, Len(w.reply)))
        l == LeDecode(Overwrite(LeEncode(len, SizeofLen),
                                Take(w.reply, r1.xfer)))
        got == IF r1.xfer = SizeofLen THEN l ELSE -1
        rest == Drop(w.reply, r1.xfer)
        r2 == IoRun(BodyLen(l), IF 2 \in w.rerr /\ BodyLen(l) > 0 THEN <<-1>>
                                ELSE EofScript(BodyLen(l), Len(rest)))
    IN  IF W(1).rc # 0 THEN SrResult(W(1).rc, -1, old_out, <<>>)
        ELSE IF W(2).rc # 0 THEN SrResult(W(2).rc, -1, old_out, parts[1])
        ELSE IF W(3).rc # 0
             THEN SrResult(W(3).rc, -1, old_out, parts[1] \o parts[2])
        ELSE LET sent == parts[1] \o parts[2] \o parts[3]
             IN  IF r1.rc # 0 THEN SrResult(r1.rc, got, old_out, sent)
                 ELSE IF IsSentinel(l)
                      THEN SrResult(-EINVAL, got, old_out, sent)
                 ELSE IF w.nomem \/ ~Allocatable(l)
                      THEN SrResult(-ENOMEM, got, NullPtr, sent)
                 ELSE SrResult(r2.rc, got,
                               LivePtr(l, Take(rest, Min(r2.xfer, l))), sent)

\* attest_util_write_file, util.c:131-146: open() gives a descriptor, 0 or
\* -1, and the data is written with attest_util_write_buf; every write()
\* on descriptor -1 returns -1
attest_util_write_file(len, fd, script) ==
    IF fd = 0 THEN -EACCES ELSE IoRun(len, script).rc

\* the results attest_util_write_file can have for len bytes
WriteFileRc(len) ==
    UNION {{attest_util_write_file(len, fd, sc) :
               sc \in (IF len = 0 THEN {<<>>}
                       ELSE IF fd = -1 THEN {<<-1>>}
                       ELSE {<<len>>, <<0>>, <<-1>>})} : fd \in {3, 0, -1}}

\* the status the parent sees when main returns rc
ExitStatus(rc) == rc % 256

\* 'if (rc < 0) break;' in main's switch
Aborts_Never(rc) == FALSE

Aborts(rc) == rc < 0

\* gethostname: 0 or -1
HostnameRc == {0, -1}

CliStart(t, save) ==
    [pc |-> "switch", type |-> t, save |-> save, rc |-> 0,
     message_in |-> NullPtr, message_out |-> NullPtr, xch |-> <<>>,
     calls |-> <<>>, printed |-> <<>>, status |-> -1]

\* after option parsing (lines 182-248): the request type, and whether
\* --save-attest-data was given
InitCli ==
    /\ \E t \in RequestTypes, save \in BOOLEAN : cli = CliStart(t, save)
    /\ srv = [pc |-> "idle"]
    /\ net = [st |-> "none"]
    /\ env = [nconn |-> 0, faults |-> 0]
    /\ mk = MaskIdle
    /\ rw = RwIdle

CliRest == <<mk, rw, srv, net, env>>

\* a call made by main: its result goes to rc
Did(c, f, rc) == [c EXCEPT !.rc = rc, !.calls = Append(@, [f |-> f, rc |-> rc])]

\* where 'if (rc < 0) break;' leads
Break(rc, next) == IF Aborts(rc) THEN "cleanup" ELSE next

\* a string the library allocated
Built(m) == LivePtr(Len(m) + 1, m)

\* one send_receive call of main, recorded
Exchanged(c, op, res) ==
    [Did(c, "send_receive", res.rc)
       EXCEPT !.xch = Append(@, [op |-> op, rc |-> res.rc,
                                 got_len |-> res.got_len,
                                 sent |-> res.sent])]

\* lines 252-255
CliAkChallengeRequest ==
    /\ cli.pc = "switch"
    /\ cli.type = "REQUEST_AK_CERT"
    /\ \E r \in HandlerRc, m \in Messages :
          cli' = [Did(cli, "attest_enroll_msg_ak_challenge_request", r)
                     EXCEPT !.message_in = IF r = 0 THEN Built(m) ELSE @,
                            !.pc = Break(r, "ak_write_file")]
    /\ UNCHANGED CliRest

\* lines 257-260: rc of attest_util_write_file is not tested
CliAkWriteFile ==
    /\ cli.pc = "ak_write_file"
    /\ \/ /\ cli.save
          /\ \E r \in WriteFileRc(strlen(cli.message_in.data)) :
                cli' = [Did(cli, "attest_util_write_file", r)
                           EXCEPT !.pc = "ak_send_0"]
       \/ /\ ~cli.save
          /\ cli' = [cli EXCEPT !.pc = "ak_send_0"]
    /\ UNCHANGED CliRest

\* lines 262-269
CliAkSendCredential ==
    /\ cli.pc = "ak_send_0"
    /\ \E w \in Worlds :
          LET res == send_receive(0, cli.message_in.data, cli.message_out, w)
              c == Exchanged(cli, 0, res)
          IN  cli' = IF Aborts(res.rc)
                     THEN [c EXCEPT !.message_out = res.message_out,
                                    !.pc = "cleanup"]
                     ELSE [c EXCEPT !.message_in = res.message_out,
                                    !.message_out = NullPtr,
                                    !.pc = "ak_hostname"]
    /\ UNCHANGED CliRest

\* lines 271-273
CliAkHostname ==
    /\ cli.pc = "ak_hostname"
    /\ \E r \in HostnameRc :
          cli' = [Did(cli, "gethostname", r)
                     EXCEPT !.pc = Break(r, "ak_cert_request")]
    /\ UNCHANGED CliRest

\* lines 275-281
CliAkCertRequest ==
    /\ cli.pc = "ak_cert_request"
    /\ \E r \in HandlerRc, m \in Messages :
          LET c == Did(cli, "attest_enroll_msg_ak_cert_request", r)
          IN  cli' = IF Aborts(r) THEN [c EXCEPT !.pc = "cleanup"]
                     ELSE [c EXCEPT !.message_in = Built(m),
                                    !.message_out = NullPtr,
                                    !.pc = "ak_send_1"]
    /\ UNCHANGED CliRest

\* lines 283-286
CliAkSendCertRequest ==
    /\ cli.pc = "ak_send_1"
    /\ \E w \in Worlds :
          LET res == send_receive(1, cli.message_in.data, cli.message_out, w)
          IN  cli' = [Exchanged(cli, 1, res)
                         EXCEPT !.message_out = res.message_out,
                                !.pc = Break(res.rc, "ak_cert_response")]
    /\ UNCHANGED CliRest

\* lines 288-289
CliAkCertResponse ==
    /\ cli.pc = "ak_cert_response"
    /\ \E r \in HandlerRc :
          cli' = [Did(cli, "attest_enroll_msg_ak_cert_response", r)
                     EXCEPT !.pc = "cleanup"]
    /\ UNCHANGED CliRest

\* lines 290-292
CliGenerateAk ==
    /\ cli.pc = "switch"
    /\ cli.type = "GENERATE_AK"
    /\ \E r \in HandlerRc :
          cli' = [Did(cli, "attest_enroll_generate_ak", r)
                     EXCEPT !.pc = "cleanup"]
    /\ UNCHANGED CliRest

\* lines 324-329
CliCreateSymKey ==
    /\ cli.pc = "switch"
    /\ cli.type = "CREATE_SYM_KEY"
    /\ \E r \in HandlerRc :
          cli' = [Did(cli, "attest_enroll_create_sym_key", r)
                     EXCEPT !.pc = "cleanup"]
    /\ UNCHANGED CliRest

\* lines 293-296
CliKeyHostname ==
    /\ cli.pc = "switch"
    /\ cli.type = "REQUEST_KEY_CERT"
    /\ \E r \in HostnameRc :
          cli' = [Did(cli, "gethostname", r)
                     EXCEPT !.pc = Break(r, "key_cert_request")]
    /\ UNCHANGED CliRest

\* lines 298-308
CliKeyCertRequest ==
    /\ cli.pc = "key_cert_request"
    /\ \E r \in HandlerRc, m \in Messages :
          cli' = [Did(cli, "attest_enroll_msg_key_cert_request", r)
                     EXCEPT !.message_in = IF r = 0 THEN Built(m) ELSE @,
                            !.pc = Break(r, "key_send_2")]
    /\ UNCHANGED CliRest

\* lines 310-313
CliKeySendCsr ==
    /\ cli.pc = "key_send_2"
    /\ \E w \in Worlds :
          LET res == send_receive(2, cli.message_in.data, cli.message_out, w)
          IN  cli' = [Exchanged(cli, 2, res)
                         EXCEPT !.message_out = res.message_out,
                                !.pc = Break(res.rc, "key_cert_response")]
    /\ UNCHANGED CliRest

\* lines 315-317
CliKeyCertResponse ==
    /\ cli.pc = "key_cert_response"
    /\ \E r \in HandlerRc :
          cli' = [Did(cli, "attest_enroll_msg_key_cert_response", r)
                     EXCEPT !.pc = Break(r, "key_write_file")]
    /\ UNCHANGED CliRest

\* lines 319-323: attest_data was filled by the request builder
CliKeyWriteFile ==
    /\ cli.pc = "key_write_file"
    /\ \/ /\ cli.save
          /\ \E m \in Messages :
                \E r \in WriteFileRc(strlen(m)) :
                   cli' = [Did(cli, "attest_util_write_file", r)
                              EXCEPT !.pc = "cleanup"]
       \/ /\ ~cli.save
          /\ cli' = [cli EXCEPT !.pc = "cleanup"]
    /\ UNCHANGED CliRest

\* lines 330-333
CliQuoteNonceRequest ==
    /\ cli.pc = "switch"
    /\ cli.type = "SEND_QUOTE"
    /\ \E r \in HandlerRc, m \in Messages :
          cli' = [Did(cli, "attest_enroll_msg_quote_nonce_request", r)
                     EXCEPT !.message_out = IF r = 0 THEN Built(m) ELSE @,
                            !.pc = Break(r, "quote_send_3")]
    /\ UNCHANGED CliRest

\* lines 335-341: the request is in message_out, the answer goes to
\* message_in
CliQuoteSendNonceRequest ==
    /\ cli.pc = "quote_send_3"
    /\ \E w \in Worlds :
          LET res == send_receive(3, cli.message_out.data, cli.message_in, w)
              c == [Exchanged(cli, 3, res)
                       EXCEPT !.message_in = res.message_out]
          IN  cli' = IF Aborts(res.rc) THEN [c EXCEPT !.pc = "cleanup"]
                     ELSE [c EXCEPT !.message_out = NullPtr,
                                    !.pc = "quote_request"]
    /\ UNCHANGED CliRest

\* lines 343-353
CliQuoteRequest ==
    /\ cli.pc = "quote_request"
    /\ \E r \in HandlerRc, m \in Messages :
          LET c == Did(cli, "attest_enroll_msg_quote_request", r)
          IN  cli' = IF Aborts(r) THEN [c EXCEPT !.pc = "cleanup"]
                     ELSE [c EXCEPT !.message_out = Built(m),
                                    !.message_in = NullPtr,
                                    !.pc = "quote_send_4"]
    /\ UNCHANGED CliRest

\* lines 355-361
CliQuoteSendQuote ==
    /\ cli.pc = "quote_send_4"
    /\ \E w \in Worlds :
          LET res == send_receive(4, cli.message_out.data, cli.message_in, w)
          IN  cli' = [Exchanged(cli, 4, res)
                         EXCEPT !.message_in = res.message_out,
                                !.printed = Append(@,
                                    IF res.rc = 0
                                    THEN "successful verification"
                                    ELSE "failed verification"),
                                !.pc = "cleanup"]
    /\ UNCHANGED CliRest

\* lines 362-364
CliNoRequest ==
    /\ cli.pc = "switch"
    /\ cli.type = "REQUEST__LAST"
    /\ cli' = [cli EXCEPT !.printed = Append(@, "Request not provided"),
                          !.status = 1, !.pc = "exited"]
    /\ UNCHANGED CliRest

\* lines 367-372: free the messages and return rc
CliReturn ==
    /\ cli.pc = "cleanup"
    /\ cli' = [cli EXCEPT !.message_in = NullPtr, !.message_out = NullPtr,
                          !.status = ExitStatus(cli.rc), !.pc = "exited"]
    /\ UNCHANGED CliRest

NextCli ==
    \/ CliAkChallengeRequest \/ CliAkWriteFile \/ CliAkSendCredential
    \/ CliAkHostname \/ CliAkCertRequest \/ CliAkSendCertRequest
    \/ CliAkCertResponse \/ CliGenerateAk \/ CliCreateSymKey
    \/ CliKeyHostname \/ CliKeyCertRequest \/ CliKeySendCsr
    \/ CliKeyCertResponse \/ CliKeyWriteFile
    \/ CliQuoteNonceRequest \/ CliQuoteSendNonceRequest \/ CliQuoteRequest
    \/ CliQuoteSendQuote \/ CliNoRequest \/ CliReturn

SpecCli == InitCli /\ [][NextCli]_vars

(***************************************************************************)
(* SpecStart: the start-up of the enrollment server,                       *)
(* attest_ra_server.c:137-211, up to the first accept(), with              *)
(* attest_util_parse_pcr_list (util.c:383-415) and the loop that builds    *)
(* pcr_mask.  A --pcr-list argument is a string of characters.             *)
(***************************************************************************)
ERANGE == 34

\* IMPLEMENTATION_PCR, the size of pcr_list, and sizeof(pcr_mask)
ImplementationPcr == 24
PcrMaskLen == 3

\* the longest --pcr-list argument tried
MaxPcrStrLen == 4

DigitVal == ("0" :> 0) @@ ("1" :> 1) @@ ("2" :> 2) @@ ("3" :> 3) @@ ("4" :> 4)
            @@ ("5" :> 5) @@ ("6" :> 6) @@ ("7" :> 7) @@ ("8" :> 8)
            @@ ("9" :> 9)

\* the tokens strsep(&list_ptr, ",") returns one after the other
RECURSIVE strsep(_)
strsep(str) ==
    IF \A k \in 1..Len(str) : str[k] # ","
    THEN <<str>>
    ELSE LET pos == CHOOSE k \in 1..Len(str) :
                        str[k] = "," /\ \A j \in 1..(k - 1) : str[j] # ","
         IN  <<SubSeq(str, 1, pos - 1)>>
             \o strsep(SubSeq(str, pos + 1, Len(str)))

RECURSIVE strtol_digits(_, _)
strtol_digits(str, acc) ==
    IF str = <<>> \/ Head(str) \notin DOMAIN DigitVal THEN acc
    ELSE strtol_digits(Tail(str), acc * 10 + DigitVal[Head(str)])

\* strtol(str, NULL, 10): an optional sign, then the leading digits; 0 when
\* there are none
strtol(str) ==
    IF str # <<>> /\ Head(str) = "-" THEN -strtol_digits(Tail(str), 0)
    ELSE strtol_digits(str, 0)

\* the while loop of attest_util_parse_pcr_list, util.c:398-411; beyond
\* holds what was stored behind the last element of pcr_list
RECURSIVE parse_pcr_loop(_, _, _, _, _)
parse_pcr_loop(tokens, i, pcr_list_num, pcr_list, beyond) ==
    IF tokens = <<>> THEN [rc |-> 0, pcr_list |-> pcr_list, beyond |-> beyond]
    ELSE IF i > pcr_list_num
         THEN [rc |-> -ERANGE, pcr_list |-> pcr_list, beyond |-> beyond]
    ELSE LET pcr == strtol(Head(tokens))
         IN  IF pcr < 0
             THEN [rc |-> pcr, pcr_list |-> pcr_list, beyond |-> beyond]
             ELSE IF i < pcr_list_num
                  THEN parse_pcr_loop(Tail(tokens), i + 1, pcr_list_num,
                                      [pcr_list EXCEPT ![i + 1] = pcr], beyond)
                  ELSE parse_pcr_loop(Tail(tokens), i + 1, pcr_list_num,
                                      pcr_list, Append(beyond, pcr))

\* util.c:383-415; dup is FALSE when strdup returns NULL
attest_util_parse_pcr_list(pcr_list_str, pcr_list_num, dup) ==
    LET cleared == [k \in 1..pcr_list_num |-> -1]
    IN  IF ~dup THEN [rc |-> -ENOMEM, pcr_list |-> cleared, beyond |-> <<>>]
        ELSE parse_pcr_loop(strsep(pcr_list_str), 0, pcr_list_num, cleared,
                            <<>>)

\* byte | (1 << bit)
SetBit(byte, bit) ==
    IF (byte \div (2 ^ bit)) % 2 = 1 THEN byte ELSE byte + 2 ^ bit

\* attest_ra_server.c:174-179: stray holds the bytes written outside
\* pcr_mask, by their index
RECURSIVE build_pcr_mask(_, _, _, _)
build_pcr_mask(pcr_list, i, pcr_mask, stray) ==
    IF i >= Len(pcr_list) THEN [pcr_mask |-> pcr_mask, stray |-> stray]
    ELSE LET pcr == pcr_list[i + 1]
         IN  IF pcr = -1
             THEN build_pcr_mask(pcr_list, i + 1, pcr_mask, stray)
             ELSE IF pcr \div 8 < PcrMaskLen
                  THEN build_pcr_mask(pcr_list, i + 1,
                          [pcr_mask EXCEPT ![pcr \div 8 + 1] =
                                               SetBit(@, pcr % 8)], stray)
                  ELSE build_pcr_mask(pcr_list, i + 1, pcr_mask,
                                      stray \cup {pcr \div 8})

\* the --pcr-list arguments tried; NoArg when the option is not given
NoArg == <<"(null)">>
PcrStrings == SeqsUpTo({"2", "4", "x", "-", ","}, MaxPcrStrLen)

\* main's variables after option parsing (lines 71-135)
SrvOptions(p, flags, section) ==
    [pc |-> "nconf_new", pcr_list_str |-> p, verifier_flags |-> flags,
     openssl_ca_section |-> section, caCertPath |-> FALSE,
     caKeyPath |-> FALSE, pcr_list |-> <<>>, pcr_mask |-> <<0, 0, 0>>,
     stray |-> {}, hmac_key |-> "unset", rand |-> -2, fd_socket |-> -1,
     bound |-> FALSE, listening |-> FALSE, rc |-> 0, status |-> -1]

InitStart ==
    /\ \E p \in PcrStrings \cup {NoArg},
          flags \in SUBSET {"CTX_ALLOW_IMA_VIOLATIONS", "CTX_SKIP_SIG_VER"},
          section \in BOOLEAN :
          srv = SrvOptions(p, flags, section)
    /\ cli = [pc |-> "idle"]
    /\ net = [st |-> "none"]
    /\ env = [nconn |-> 0, faults |-> 0]
    /\ mk = MaskIdle
    /\ rw = RwIdle

StartRest == <<mk, rw, cli, net, env>>

\* 'return rc;' from main
Returned(s, rc) == [s EXCEPT !.rc = rc, !.status = ExitStatus(rc),
                             !.pc = "exited"]

\* lines 137-141
StNconfNew ==
    /\ srv.pc = "nconf_new"
    /\ \/ srv' = [srv EXCEPT !.pc = "ca_section"]
       \/ srv' = Returned(srv, -ENOMEM)
    /\ UNCHANGED StartRest

\* lines 143-154
StCaSection ==
    /\ srv.pc = "ca_section"
    /\ \/ /\ srv.openssl_ca_section
          /\ srv' = [srv EXCEPT !.pc = "ca_paths"]
       \/ /\ ~srv.openssl_ca_section
          /\ \/ srv' = [srv EXCEPT !.openssl_ca_section = TRUE,
                                   !.pc = "ca_paths"]
             \/ srv' = [srv EXCEPT !.rc = -ENOENT, !.pc = "out"]
    /\ UNCHANGED StartRest

\* lines 156-165
StCaPaths ==
    /\ srv.pc = "ca_paths"
    /\ \E cert \in BOOLEAN, key \in BOOLEAN :
          srv' = IF ~cert \/ ~key
                 THEN [srv EXCEPT !.caCertPath = cert, !.caKeyPath = key,
                                  !.rc = -ENOENT, !.pc = "out"]
                 ELSE [srv EXCEPT !.caCertPath = cert, !.caKeyPath = key,
                                  !.pc = "pcr_list"]
    /\ UNCHANGED StartRest

\* lines 167-180
StPcrList ==
    /\ srv.pc = "pcr_list"
    /\ \/ /\ srv.pcr_list_str = NoArg
          /\ srv' = [srv EXCEPT !.pc = "rand_bytes"]
       \/ /\ srv.pcr_list_str # NoArg
          /\ \E dup \in BOOLEAN :
                LET res == attest_util_parse_pcr_list(srv.pcr_list_str,
                                                      ImplementationPcr, dup)
                    built == build_pcr_mask(res.pcr_list, 0, srv.pcr_mask, {})
                IN  srv' = IF res.rc < 0
                           THEN Returned([srv EXCEPT
                                            !.pcr_list = res.pcr_list], res.rc)
                           ELSE [srv EXCEPT !.rc = res.rc,
                                            !.pcr_list = res.pcr_list,
                                            !.pcr_mask = built.pcr_mask,
                                            !.stray = built.stray,
                                            !.pc = "rand_bytes"]
    /\ UNCHANGED StartRest

\* lines 182-189
StRandBytes ==
    /\ srv.pc = "rand_bytes"
    \* RAND_bytes returns 1 on success, 0 on failure, -1 when the generator
    \* does not support the request
    /\ \E r \in {1, 0, -1} :
          srv' = IF r = 0
                 THEN [srv EXCEPT !.rand = r, !.rc = -EINVAL, !.pc = "out"]
                 ELSE [srv EXCEPT !.rand = r, !.rc = r,
                                  !.hmac_key = IF r = 1 THEN "random" ELSE @,
                                  !.pc = "socket"]
    /\ UNCHANGED StartRest

\* lines 191-193: the result of socket() is not tested
StSocket ==
    /\ srv.pc = "socket"
    /\ \E fd \in {3, -1} :
          srv' = [srv EXCEPT !.fd_socket = fd, !.pc = "bind"]
    /\ UNCHANGED StartRest

\* lines 195-205: bind() fails on a descriptor that is not a socket
StBind ==
    /\ srv.pc = "bind"
    /\ \E r \in (IF srv.fd_socket = -1 THEN {-1} ELSE {0, -1}) :
          srv' = [srv EXCEPT !.rc = r, !.bound = (r = 0),
                             !.pc = IF r # 0 THEN "out" ELSE "listen"]
    /\ UNCHANGED StartRest

\* lines 207-211
StListen ==
    /\ srv.pc = "listen"
    /\ \E r \in {0, -1} :
          srv' = [srv EXCEPT !.rc = r, !.listening = (r = 0),
                             !.pc = IF r # 0 THEN "out" ELSE "accept"]
    /\ UNCHANGED StartRest

\* lines 333-338
StOut ==
    /\ srv.pc = "out"
    /\ srv' = [srv EXCEPT !.fd_socket = -1, !.bound = FALSE,
                          !.listening = FALSE, !.status = 0, !.pc = "exited"]
    /\ UNCHANGED StartRest

NextStart ==
    \/ StNconfNew \/ StCaSection \/ StCaPaths \/ StPcrList \/ StRandBytes
    \/ StSocket \/ StBind \/ StListen \/ StOut

SpecStart == InitStart /\ [][NextStart]_vars

(***************************************************************************)
(* SpecPcr: attest_util_parse_pcr_list (util.c:383-415) called with an     *)
(* array of pcr_list_num elements; beyond holds what the call stored       *)
(* behind the array.                                                       *)
(***************************************************************************)
\* the longest pcr_list array tried
MaxPcrListNum == 2

InitPcr ==
    /\ \E str \in PcrStrings, n \in 0..MaxPcrListNum :
          srv = [pc |-> "call", pcr_list_str |-> str, pcr_list_num |-> n,
                 pcr_list |-> <<>>, beyond |-> <<>>, rc |-> 0]
    /\ cli = [pc |-> "idle"]
    /\ net = [st |-> "none"]
    /\ env = [nconn |-> 0, faults |-> 0]
    /\ mk = MaskIdle
    /\ rw = RwIdle

PcrParse ==
    /\ srv.pc = "call"
    /\ \E dup \in BOOLEAN :
          LET res == attest_util_parse_pcr_list(srv.pcr_list_str,
                                                srv.pcr_list_num, dup)
          IN  srv' = [srv EXCEPT !.pc = IF dup THEN "done" ELSE "nomem",
                                 !.rc = res.rc,
                                 !.pcr_list = res.pcr_list,
                                 !.beyond = res.beyond]
    /\ UNCHANGED StartRest

NextPcr == PcrParse

SpecPcr == InitPcr /\ [][NextPcr]_vars

(***************************************************************************)
(* SpecTls: the TLS client, attest_tls_client.c: the side-channel exchange *)
(* send_receive_attest_data (lines 67-123), one call per step, and main    *)
(* from the exchange to SSL_connect and the clean-up (lines 268-338).      *)
(* data_size is a size_t: what is written and read is its object, 8 bytes. *)
(***************************************************************************)
\* the longest evidence file tried
MaxEvidence == 2

RECURSIVE BeEncode(_, _)
BeEncode(v, n) ==
    IF n = 0 THEN <<>> ELSE BeEncode(v \div 256, n - 1) \o <<v % 256>>

RECURSIVE BeDecode(_)
BeDecode(bytes) ==
    IF bytes = <<>> THEN 0
    ELSE BeDecode(SubSeq(bytes, 1, Len(bytes) - 1)) * 256
         + bytes[Len(bytes)]

\* the bytes of a size_t object that was assigned htonl(v): the 32-bit
\* value in network order, then the upper half of the object, zero
HtonlObject(v) == BeEncode(v, 4) \o <<0, 0, 0, 0>>

\* ntohl of a size_t object: the host value of its lower 32 bits
NtohlObject(bytes) == BeDecode(Take(bytes, 4))

\* what the TLS server sends before it waits for the handshake
TlsReplies ==
    {<<>>, HtonlObject(0), HtonlObject(1) \o <<9>>, HtonlObject(2) \o <<9>>,
     BeEncode(1, 4) \o <<9>>}

TlsStart(custom, skae, path, file, how, reply) ==
    [pc |-> "create_socket", custom_protocol |-> custom, verify_skae |-> skae,
     attest_data_path |-> path, file |-> file, how |-> how,
     client_attest_data |-> "null", file_size |-> 0, data_size |-> 0,
     object |-> <<0, 0, 0, 0, 0, 0, 0, 0>>,
     rc |-> 0, sent |-> <<>>, reply |-> reply, taken |-> <<>>,
     log |-> <<>>, server_attest_data |-> NullPtr,
     server_attest_data_size |-> 0, closes |-> 0, status |-> -1]

\* main after configure_context returned 0 (lines 254-257)
InitTls ==
    /\ \E custom \in BOOLEAN, skae \in BOOLEAN, path \in BOOLEAN,
          file \in SeqsUpTo({5, 7}, MaxEvidence),
          \* attest_util_read_file (util.c:51-71): the file is mapped, or
          \* stat/open fail, or mmap fails after the size was stored
          how \in {"ok", "EACCES", "MAP_FAILED"},
          reply \in TlsReplies :
          /\ ~path => (file = <<>> /\ how = "ok")
          /\ ~custom => (~path /\ reply = <<>>)
          /\ cli = TlsStart(custom, skae, path, file, how, reply)
    /\ srv = [pc |-> "idle"]
    /\ net = [st |-> "none"]
    /\ env = [nconn |-> 0, faults |-> 0]
    /\ mk = MaskIdle
    /\ rw = RwIdle

Logged(c, what) == [c EXCEPT !.log = Append(@, what)]

\* 'if (rc < 0) goto error;' in send_receive_attest_data
TlsFailed(rc) == rc < 0

\* main:259-268 and create_socket (lines 32-65): -1 when getaddrinfo
\* failed or no address could be connected
TlsCreateSocket ==
    /\ cli.pc = "create_socket"
    /\ \E server \in {3, -1} :
          cli' = IF server < 0
                 THEN [Logged(cli, "Unable to connect") EXCEPT !.pc = "free"]
                 ELSE [Logged(cli, "connected") EXCEPT
                          !.pc = IF cli.custom_protocol THEN "read_file"
                                 ELSE "configure_attest"]
    /\ UNCHANGED CliRest

\* lines 75-80
TlsReadFile ==
    /\ cli.pc = "read_file"
    /\ cli' = IF ~cli.attest_data_path THEN [cli EXCEPT !.pc = "write_len"]
              ELSE IF cli.how = "EACCES"
                   THEN [cli EXCEPT !.rc = -EACCES, !.pc = "write_len"]
              ELSE IF cli.how = "MAP_FAILED"
                   THEN [cli EXCEPT !.rc = -ENOMEM,
                                    !.file_size = Len(cli.file),
                                    !.client_attest_data = "MAP_FAILED",
                                    !.pc = "write_len"]
              ELSE [cli EXCEPT !.rc = 0, !.file_size = Len(cli.file),
                               !.data_size = Len(cli.file),
                               !.client_attest_data = "mapped",
                               !.pc = "write_len"]
    /\ UNCHANGED CliRest

\* lines 82-86
TlsWriteLen ==
    /\ cli.pc = "write_len"
    /\ \E sc \in WriteScripts(SizeofLen, TRUE) :
          LET io == IoRun(SizeofLen, sc)
              object == HtonlObject(cli.data_size)
          IN  /\ io.returned
              /\ cli' = [Logged(cli, "write") EXCEPT
                    !.rc = io.rc, !.object = object,
                    !.sent = @ \o Take(object, io.xfer),
                    !.pc = IF TlsFailed(io.rc) THEN "error"
                           ELSE "write_data"]
    /\ UNCHANGED CliRest

\* lines 88-92; a mapping that failed is the address -1, which write()
\* refuses
TlsWriteData ==
    /\ cli.pc = "write_data"
    /\ IF cli.file_size = 0
       THEN cli' = [cli EXCEPT !.pc = "read_len"]
       ELSE \E sc \in IF cli.client_attest_data = "MAP_FAILED" THEN {<<-1>>}
                      ELSE WriteScripts(cli.file_size, TRUE) :
               LET io == IoRun(cli.file_size, sc)
               IN  /\ io.returned
                   /\ cli' = [Logged(cli, "write") EXCEPT
                         !.rc = io.rc,
                         !.sent = @ \o Take(cli.file, io.xfer),
                         !.pc = IF TlsFailed(io.rc) THEN "error"
                                ELSE "read_len"]
    /\ UNCHANGED CliRest

\* lines 94-99: the object is filled by what read() delivered, then
\* 'data_size = ntohl(data_size)'
TlsReadLen ==
    /\ cli.pc = "read_len"
    /\ \E sc \in ReadScripts(SizeofLen, Len(cli.reply), TRUE, TRUE) :
          LET io == IoRun(SizeofLen, sc)
              object == Take(cli.reply, io.xfer) \o Drop(cli.object, io.xfer)
          IN  /\ io.returned
              /\ cli' = [Logged(cli, "read") EXCEPT
                    !.rc = io.rc, !.object = object,
                    !.taken = @ \o Take(cli.reply, io.xfer),
                    !.reply = Drop(@, io.xfer),
                    !.data_size = IF TlsFailed(io.rc) THEN @
                                  ELSE NtohlObject(object),
                    !.pc = IF TlsFailed(io.rc) THEN "error"
                           ELSE "read_data"]
    /\ UNCHANGED CliRest

\* 'if (data_size)' at line 101
HasEvidence_Always(data_size) == TRUE

HasEvidence(data_size) == data_size # 0

\* lines 101-117
TlsReadData ==
    /\ cli.pc = "read_data"
    /\ IF ~HasEvidence(cli.data_size)
       THEN cli' = [cli EXCEPT !.pc = "error"]
       ELSE \/ cli' = [cli EXCEPT !.rc = -ENOMEM, !.pc = "error"]
            \/ \E sc \in ReadScripts(cli.data_size, Len(cli.reply),
                                     TRUE, TRUE) :
                  LET io == IoRun(cli.data_size, sc)
                      got == Take(cli.reply, io.xfer)
                  IN  /\ io.returned
                      /\ cli' = [Logged(cli, "read") EXCEPT
                            !.rc = io.rc,
                            !.taken = @ \o got,
                            !.reply = Drop(@, io.xfer),
                            !.server_attest_data =
                                IF TlsFailed(io.rc)
                                THEN [st |-> "freed", size |-> 0,
                                      data |-> <<>>]
                                ELSE [st |-> "alloc", size |-> cli.data_size,
                                      data |-> got],
                            !.server_attest_data_size =
                                IF TlsFailed(io.rc) THEN @
                                ELSE cli.data_size,
                            !.pc = "error"]
    /\ UNCHANGED CliRest

\* lines 118-122 and main:272-273
TlsExchangeReturn ==
    /\ cli.pc = "error"
    /\ cli' = [Logged(cli, IF cli.rc < 0 THEN "exchange failed"
                           ELSE "exchange returned")
                 EXCEPT !.client_attest_data =
                            IF @ = "null" THEN @ ELSE "unmapped",
                        !.pc = IF cli.rc < 0 THEN "main_error"
                               ELSE "configure_attest"]
    /\ UNCHANGED CliRest

\* main:276-282
TlsConfigureAttest ==
    /\ cli.pc = "configure_attest"
    /\ IF ~cli.verify_skae
       THEN cli' = [cli EXCEPT !.pc = "SSL_connect"]
       ELSE \E rc \in HandlerRc :
               cli' = [Logged(cli, "configure_attest") EXCEPT
                          !.rc = rc,
                          !.pc = IF rc < 0 THEN "main_error"
                                 ELSE "SSL_connect"]
    /\ UNCHANGED CliRest

\* main:284-301
TlsSslConnect ==
    /\ cli.pc = "SSL_connect"
    \* SSL_connect returns 1 when the handshake succeeded, 0 or less otherwise
    /\ \E rc \in {1, 0, -1} :
          cli' = IF rc <= 0
                 THEN [Logged(cli, "SSL_connect") EXCEPT
                          !.rc = -EIO, !.closes = @ + 1,
                          !.pc = "error_ssl"]
                 ELSE [Logged(cli, "SSL_connect") EXCEPT
                          !.rc = rc, !.pc = "verify_result"]
    /\ UNCHANGED CliRest

\* main:303-325: '!SSL_get_verify_result(ssl) == X509_V_OK' with
\* X509_V_OK = 0
TlsSession ==
    /\ cli.pc = "verify_result"
    /\ \E v \in {0, 18} :
          LET not_v == IF v = 0 THEN 1 ELSE 0
          IN  cli' = [Logged(cli, IF not_v = 0 THEN "bad server cert"
                                  ELSE "good server cert")
                        EXCEPT !.pc = "error_ssl"]
    /\ UNCHANGED CliRest

\* main:326-328
TlsErrorSsl ==
    /\ cli.pc = "error_ssl"
    /\ cli' = [Logged(cli, "SSL_shutdown") EXCEPT !.pc = "main_error"]
    /\ UNCHANGED CliRest

\* main:329-338
TlsCleanup ==
    /\ cli.pc \in {"main_error", "free"}
    /\ cli' = [Logged(cli, "return") EXCEPT
                  !.closes = IF cli.pc = "main_error" THEN @ + 1 ELSE @,
                  !.status = ExitStatus(cli.rc),
                  !.pc = "exit"]
    /\ UNCHANGED CliRest

NextTls ==
    \/ TlsCreateSocket
    \/ TlsReadFile
    \/ TlsWriteLen
    \/ TlsWriteData
    \/ TlsReadLen
    \/ TlsReadData
    \/ TlsExchangeReturn
    \/ TlsConfigureAttest
    \/ TlsSslConnect
    \/ TlsSession
    \/ TlsErrorSsl
    \/ TlsCleanup

SpecTls == InitTls /\ [][NextTls]_vars

(***************************************************************************)
(* Claims about the server's accept loop and send_receive.                 *)
(***************************************************************************)
LoopPcs == {"accept", "read_len", "read_op", "malloc", "read_payload",
            "dispatch", "sign_csr", "read_ca_cert", "return_cert",
            "response", "write_payload", "out_free"}

Sentinel == LeEncode(0, SizeofLen)

\* C3: after any failure while serving one connection the server closes
\* the connection and goes back to accept(); no step takes the server out
\* of the accept loop.
C3_FaultNeverLeavesLoop ==
    [][srv.pc \in LoopPcs => srv'.pc \in LoopPcs]_vars

\* C4: when the handler of the received opcode fails, or the opcode is
\* not one of 0..4, the response is the 8-byte total_length 0 and nothing
\* else: len is 0, no payload write is made, and a response write that met
\* no error put exactly the eight zero bytes on the connection.
C4_FailureGivesSentinel ==
    srv.gh.handled = "failed" =>
        /\ srv.len = 0
        /\ srv.pc # "write_payload"
        /\ (srv.pc = "out_free" /\ ~srv.gh.wfault) => srv.gh.sent = Sentinel

C4_Witness ==
    /\ srv.pc = "out_free"
    /\ srv.gh.handled = "failed"
    /\ srv.gh.sent = Sentinel
    /\ Len(srv.gh.calls) = 3
    /\ srv.gh.calls[3] = [f |-> "attest_util_read_seq_file", rc |-> -EINVAL]

\* C5: send_receive returns an error and hands back no message whenever
\* the total_length it read is 0, and the server never writes total_length
\* 0 after a handler that succeeded (then total_length >= 9).
C5_ZeroLengthIsFailure ==
    /\ (cli.pc \in {"out", "done"} /\ cli.gh.got_len = 0)
           => (cli.rc # 0 /\ cli.message_out.st = "null")
    /\ (srv.gh.handled = "ok"
           /\ srv.pc \in {"response", "write_payload", "out_free", "out"})
           => /\ srv.len >= SizeofLen + 1
              /\ Len(srv.gh.sent) >= SizeofLen
                    => LeDecode(Take(srv.gh.sent, SizeofLen)) >= SizeofLen + 1

C5_Witness ==
    /\ cli.pc = "done"
    /\ cli.gh.got_len = 0
    /\ cli.rc = -EINVAL
    /\ srv.gh.handled = "failed"

\* C6: a total_length below the frame's header size is rejected before
\* the payload length is computed from it: the subtractions
\* total_length - header (server, request) and total_length - 8 (client,
\* response) are never made when they would wrap around.
C6_NoLengthUnderflow ==
    /\ ~(srv.gh.total # -1 /\ srv.gh.underflow)
    /\ ~(cli.gh.got_len # -1 /\ cli.gh.underflow)

\* the connection is the client's, and neither end met an I/O error or an
\* end of file on it
CleanExchange ==
    /\ net.kind = "client"
    /\ net.st = "open"
    /\ ~srv.gh.io_fault
    /\ ~cli.gh.io_fault

FrameWritten == cli.pc \notin {"idle", "write_len", "write_op", "write_payload"}

\* C8: the request frame send_receive wrote is decoded by the server into
\* the same opcode and the same payload bytes: when the payload is about
\* to be read, the bytes still queued are exactly the len bytes the server
\* asks for, and at dispatch nothing is left unread.
C8_RequestRoundTrip ==
    (CleanExchange /\ FrameWritten) =>
        /\ srv.pc = "read_payload" =>
              (srv.op = cli.op /\ srv.len = Len(net.c2s))
        /\ srv.pc = "dispatch" =>
              /\ srv.op = cli.op
              /\ srv.message_in.data = cli.message_in
              /\ CStr(srv.message_in.data) = cli.message_in
              /\ net.c2s = <<>>

C8_Witness ==
    /\ CleanExchange
    /\ srv.pc = "dispatch"
    /\ Len(cli.message_in) = MaxMsgLen
    /\ srv.message_in.data = cli.message_in
    /\ srv.op = cli.op
    /\ cli.op = 5

\* C9 as stated: total_length is 12 plus the number of payload bytes, and
\* the server takes the payload length to be total_length - 12.
C9_TotalIsHeaderPlusPayload ==
    /\ cli.pc \in {"write_len", "write_op", "write_payload"}
          => cli.len = SizeofLen + SizeofOp + Len(cli.message_in)
    /\ (srv.pc = "read_payload" /\ srv.gh.total # -1)
          => srv.len = ToSizeT(srv.gh.total - (SizeofLen + SizeofOp))

\* C9 amended: total_length is 16 (twice the size of the length field)
\* plus the number of payload bytes, the frame being 8 bytes of length, 4
\* bytes of opcode and the payload; the server takes the payload length
\* to be total_length - 16.
C9_TotalIsSixteenPlusPayload ==
    /\ cli.pc \in {"write_len", "write_op", "write_payload"}
          => cli.len = 2 * SizeofLen + Len(cli.message_in)
    /\ (FrameWritten /\ cli.gh.sent # <<>> /\ ~cli.gh.io_fault)
          => cli.gh.sent = LeEncode(2 * SizeofLen + Len(cli.message_in),
                                    SizeofLen)
                           \o LeEncode(cli.op, SizeofOp) \o cli.message_in
    /\ (srv.pc = "read_payload" /\ srv.gh.total # -1)
          => srv.len = ToSizeT(srv.gh.total - 2 * SizeofLen)

C9_Witness ==
    /\ CleanExchange
    /\ srv.pc = "read_payload"
    /\ srv.gh.total = 2 * SizeofLen + MaxMsgLen
    /\ Len(cli.gh.sent) = SizeofLen + SizeofOp + MaxMsgLen
    /\ srv.len = MaxMsgLen

CallsOf(f) == {i \in 1..Len(srv.gh.calls) : srv.gh.calls[i].f = f}

\* C10: for opcode 2, attest_enroll_sign_csr is called only after
\* attest_enroll_msg_process_csr returned 0 on the same connection; when
\* CSR processing fails no signing call is made, no certificate exists and
\* the response is the error sentinel.
C10_SignOnlyAfterCsrAccepted ==
    /\ \A i \in CallsOf("attest_enroll_sign_csr") :
          /\ i > 1
          /\ srv.gh.calls[i - 1] =
                [f |-> "attest_enroll_msg_process_csr", rc |-> 0]
    /\ \A i \in CallsOf("attest_enroll_msg_process_csr") :
          srv.gh.calls[i].rc # 0 =>
             /\ CallsOf("attest_enroll_sign_csr") = {}
             /\ srv.cert_str # "live"
             /\ srv.message_out.st # "live"
             /\ srv.len = 0
             /\ srv.pc # "write_payload"
             /\ (srv.pc = "out_free" /\ ~srv.gh.wfault)
                    => srv.gh.sent = Sentinel

C10_Witness ==
    /\ srv.pc = "out_free"
    /\ srv.gh.calls =
          <<[f |-> "attest_enroll_msg_process_csr", rc |-> -EINVAL]>>
    /\ srv.gh.sent = Sentinel


(***************************************************************************)
(* Claims about attest_util_check_mask and attest_util_rw_buf.             *)
(***************************************************************************)

\* every bit set in R is set in A; a byte beyond A's length has no bit set
Covers(A, R) ==
    \A i \in 1..Len(R) :
        BitAnd(IF i <= Len(A) THEN A[i] ELSE 0, R[i]) = R[i]

\* C1: attest_util_check_mask(A, R) returns 0 if and only if every bit set
\* in R is also set in A (bits beyond A's length count as not set), so
\* extra bits or bytes in A never make it fail.
C1_CheckMaskIffCovers ==
    mk.pc = "done" => (mk.rc = 0 <=> Covers(mk.mask_in, mk.mask_ref))

\* C2: whenever the asserted mask is shorter than the required mask,
\* attest_util_check_mask returns -EINVAL, whatever the masks hold.
C2_ShorterAssertedIsInvalid ==
    (mk.pc = "done" /\ Len(mk.mask_in) < Len(mk.mask_ref))
        => mk.rc = -EINVAL

\* C7: attest_util_read_buf / attest_util_write_buf return 0 only after
\* exactly buf_len bytes were transferred, and return -EIO whenever read()
\* or write() returned -1 or 0 before that.
C7_RwBufExactOrEio ==
    rw.pc = "done" =>
        /\ (rw.rc = 0 => rw.xfer = rw.buf_len)
        /\ (rw.failed => rw.rc = -EIO)

(***************************************************************************)
(* Claims about the enrollment client's flows (SpecCli).                   *)
(***************************************************************************)
CalledOk(f) == \E j \in 1..Len(cli.calls) : cli.calls[j] = [f |-> f, rc |-> 0]

\* an exchange in which the client read the error sentinel as the length
ReadSentinel(x) == x.got_len = 0

ReadResponse(x) == x.got_len > 0

Printed(text) == \E i \in 1..Len(cli.printed) : cli.printed[i] = text

\* C12: in the quote flow opcode 4 is sent only as the second request,
\* after the opcode 3 exchange returned 0 without the sentinel and
\* attest_enroll_msg_quote_request succeeded; "successful verification" is
\* printed exactly when the opcode 4 exchange ended with a response that is
\* not the sentinel, and the exit status is 0 exactly when it was printed
C12_VerdictMatchesResponse ==
    cli.type = "SEND_QUOTE" =>
       /\ \A i \in 1..Len(cli.xch) :
             cli.xch[i].op = 4 =>
                /\ i = 2
                /\ cli.xch[1].op = 3
                /\ cli.xch[1].rc = 0
                /\ ~ReadSentinel(cli.xch[1])
                /\ CalledOk("attest_enroll_msg_quote_request")
       /\ cli.pc \in {"cleanup", "exited"} =>
             (Printed("successful verification")
                 <=> /\ Len(cli.xch) = 2
                     /\ cli.xch[2].rc = 0
                     /\ ReadResponse(cli.xch[2]))
       /\ cli.pc = "exited" =>
             (cli.status = 0 <=> Printed("successful verification"))

\* C13: a step of main that returns a non-zero result is the last step of
\* the run, the exit status is that result, and no opcode is sent twice
C13_FirstFailureEndsFlow ==
    /\ \A j \in 1..Len(cli.calls) :
          cli.calls[j].rc # 0 =>
             /\ j = Len(cli.calls)
             /\ cli.pc \in {"cleanup", "exited"}
             /\ cli.pc = "exited" =>
                   (cli.status # 0 /\ cli.status = ExitStatus(cli.calls[j].rc))
    /\ \A i, j \in 1..Len(cli.xch) : i # j => cli.xch[i].op # cli.xch[j].op

(***************************************************************************)
(* Claims about the server's start-up (SpecStart).                         *)
(***************************************************************************)
\* C14: the accept loop is entered only with a listening socket, a server
\* secret that RAND_bytes reported as generated (result 1), and the CA
\* certificate and key locations loaded
C14_AcceptOnlyAfterGoodStartup ==
    srv.pc = "accept" =>
       /\ srv.fd_socket # -1
       /\ srv.bound
       /\ srv.listening
       /\ srv.rand = 1
       /\ srv.hmac_key = "random"
       /\ srv.caCertPath
       /\ srv.caKeyPath

\* what the start-up fixed for the lifetime of the process
Config(s) == <<s.hmac_key, s.pcr_mask, s.verifier_flags>>

\* C15: no step of the accept loop changes hmac_key, pcr_mask or
\* verifier_flags
C15_ConfigFixedInLoop ==
    [][srv.pc \in LoopPcs => Config(srv') = Config(srv)]_vars

\* a handler has answered on the second connection of the process
C15_Witness ==
    /\ env.nconn = 2
    /\ srv.pc = "response"
    /\ srv.gh.handled = "ok"
    /\ Config(srv) = Config(SrvStarted)

\* a --pcr-list entry that names a PCR: digits only, below the number of
\* bits of the mask
ValidPcrEntry(tok) ==
    /\ tok # <<>>
    /\ \A k \in 1..Len(tok) : tok[k] \in DOMAIN DigitVal
    /\ strtol(tok) < 8 * PcrMaskLen

MaskBit(mask, i) == (mask[i \div 8 + 1] \div (2 ^ (i % 8))) % 2 = 1

\* the start-up ended in the 'return rc;' that follows the parsing
PcrListRefused ==
    srv.pc = "exited" /\ srv.pcr_list # <<>> /\ srv.status # 0

\* C16: once the mask was built from a --pcr-list argument, bit i is set
\* exactly when a valid entry names i (an invalid entry sets nothing),
\* nothing was written outside the mask, and only a failed strdup lets the
\* parsing end the start-up
C16_PcrMaskFromValidEntries ==
    (srv.pcr_list_str # NoArg /\ srv.pcr_list # <<>>) =>
       /\ PcrListRefused => srv.rc = -ENOMEM
       /\ ~PcrListRefused =>
             /\ srv.stray = {}
             /\ \A i \in 0..(8 * PcrMaskLen - 1) :
                   MaskBit(srv.pcr_mask, i)
                      <=> \E k \in 1..Len(strsep(srv.pcr_list_str)) :
                             LET tok == strsep(srv.pcr_list_str)[k]
                             IN  ValidPcrEntry(tok) /\ strtol(tok) = i

(***************************************************************************)
(* Claims about the order of the steps of one connection (Spec).           *)
(***************************************************************************)
\* C17: on a connection a handler runs only after the length, the opcode
\* and the whole payload were read, only the calls of one case of the
\* switch are made, a response is written only after the header was read
\* and is one frame at most, the connection is closed when the server
\* leaves it, and no connection is open while the server waits in accept()
C17_OneRequestOneResponseInOrder ==
    /\ srv.pc \in LoopPcs =>
          /\ srv.gh.calls # <<>> => srv.gh.reads = 3
          /\ Len(srv.gh.calls) > 1 => srv.op = 2
          /\ srv.gh.sent # <<>> =>
                /\ srv.gh.reads >= 2
                /\ srv.pc \in {"write_payload", "out_free"}
                /\ Len(srv.gh.sent) <= SizeofLen + BodyLen(LeDecode(
                                          Take(srv.gh.sent, SizeofLen)))
    /\ srv.pc = "accept" => srv.fd # "open"
    /\ srv.pc = "out" => srv.fd # "open"

\* the response frame main builds from a handler's result (lines 308-320)
FrameOf(handled, message_out) ==
    IF handled = "ok"
    THEN LeEncode(strlen(message_out.data) + SizeofLen + 1, SizeofLen)
         \o CStr(message_out.data) \o <<0>>
    ELSE Sentinel

\* the request of this connection was read completely
RequestRead == srv.gh.reads = 3 /\ ~srv.ub

TlsEvidence(c) ==
    IF c.attest_data_path /\ c.how = "ok" THEN c.file ELSE <<>>

InLog(c, what) == \E i \in 1..Len(c.log) : c.log[i] = what

\* both directions of the exchange went through: the length and the
\* evidence are on the wire, and a length and as many bytes of the
\* server's evidence as it announces were taken from the reply
ExchangeComplete(c) ==
    /\ c.sent = HtonlObject(Len(TlsEvidence(c))) \o TlsEvidence(c)
    /\ Len(c.taken) >= SizeofLen
    /\ Len(c.taken) = SizeofLen + NtohlObject(Take(c.taken, SizeofLen))

\* C19: with the custom protocol, SSL_connect is started only after the
\* side-channel exchange went through in both directions; the client reads
\* nothing before its own length and evidence are written; after a failed
\* exchange no handshake is attempted.
C19_HandshakeAfterExchange ==
    /\ (cli.custom_protocol /\ InLog(cli, "SSL_connect"))
           => ExchangeComplete(cli)
    /\ \A i \in 1..Len(cli.log), j \in 1..Len(cli.log) :
           (cli.log[i] = "read" /\ cli.log[j] = "write") => j < i
    /\ InLog(cli, "exchange failed") => ~InLog(cli, "SSL_connect")

\* C20: what a write of the client puts on the wire is a 4-byte big-endian
\* length, then the evidence, nothing between them, and the client takes
\* exactly 4 bytes of the reply as the length of the server's evidence.
C20_FourByteLengthPrefix ==
    /\ \E prefix \in {<<>>, BeEncode(Len(TlsEvidence(cli)), 4)},
          evidence \in {<<>>, TlsEvidence(cli)} :
          cli.sent = prefix \o evidence
    /\ cli.pc = "read_data" => Len(cli.taken) \in {0, 4}

CountLog(c, what) == Cardinality({i \in 1..Len(c.log) : c.log[i] = what})

\* C21: with no evidence file configured the client writes a length of 0
\* and no evidence, still reads the reply, and a reply that announces
\* length 0 ends the exchange with success, nothing more taken from the
\* reply, server evidence of size 0 and no buffer.
C21_EmptyEvidenceBothWays ==
    /\ ~cli.attest_data_path =>
          /\ cli.sent \in {<<>>, HtonlObject(0)}
          /\ CountLog(cli, "write") <= 1
          /\ InLog(cli, "exchange returned") => InLog(cli, "read")
    /\ (cli.taken = HtonlObject(0) /\ cli.pc \notin {"read_len", "read_data"})
          => /\ CountLog(cli, "read") = 1
             /\ cli.server_attest_data = NullPtr
             /\ cli.server_attest_data_size = 0
             /\ ~InLog(cli, "exchange failed")

C21_Witness ==
    /\ ~cli.attest_data_path
    /\ cli.sent = HtonlObject(0)
    /\ cli.taken = HtonlObject(0)
    /\ InLog(cli, "exchange returned")

(***************************************************************************)
(* Claims about the resources of one connection (Spec, SpecCli, SpecTls).  *)
(***************************************************************************)
\* the response of a connection went out whole: no syscall of the writes
\* failed and what was sent is the sentinel, or a length and the number of
\* bytes it announces
OneFrameSent(gh) ==
    /\ ~gh.wfault
    /\ Len(gh.sent) >= SizeofLen
    /\ LET total == LeDecode(Take(gh.sent, SizeofLen))
       IN  Len(gh.sent) = IF total = 0 THEN SizeofLen
                          ELSE SizeofLen + BodyLen(total)

\* at the clean-up of a connection whose request was read whole and whose
\* response writes met no failure, exactly one response frame went out
ResponseWholeBeforeClose ==
    (srv.pc = "out_free" /\ srv.gh.reads = 3 /\ srv.rc = 0
     /\ ~srv.gh.io_fault)
        => OneFrameSent(srv.gh)

\* C22: the server leaves a connection it accepted only through close() on
\* its descriptor, also when a read or a write failed, and a connection
\* whose request was read whole and whose response writes succeeded got
\* exactly one response frame before it is closed.
C22_EveryConnectionClosed ==
    /\ (srv.pc = "out" /\ srv.fd # "unset") => srv.fd = "closed"
    /\ ResponseWholeBeforeClose

\* C23: at the clean-up of a connection each of message_in, message_out,
\* csr_str, cert_str and ca_cert_str is NULL or a live buffer of that
\* connection, so that free() never gets a pointer it was given before.
C23_NoFreedPointerAtCleanup ==
    /\ srv.pc = "out_free" =>
          "freed" \notin {srv.message_in.st, srv.message_out.st, srv.csr_str,
                          srv.cert_str, srv.ca_cert_str}
    /\ ~srv.bad_free

\* when the client goes on to read, as many evidence bytes as the prefix
\* announces are on the wire behind it
WireMatchesPrefix ==
    (cli.pc = "read_len" /\ Len(cli.sent) >= SizeofLen)
       => Len(cli.sent) - SizeofLen = NtohlObject(Take(cli.sent, SizeofLen))

\* C24: the evidence write of the side-channel exchange is for as many
\* bytes as the length prefix announces, and when the client goes on to
\* read the reply that many evidence bytes are on the wire behind the
\* prefix, also when reading or mapping the evidence file failed.
C24_EvidenceMatchesPrefix ==
    /\ cli.pc = "write_data" => cli.file_size = NtohlObject(cli.object)
    /\ WireMatchesPrefix

\* C27: when send_receive returns, the one close() at its end was given the
\* socket the call had opened and not yet closed, also when name resolution
\* failed and when no address could be connected.
C27_CloseOnlyOpenSocket ==
    cli.pc = "done" => cli.closed_on = "open"

\* C28: the TLS client's exit status is 0 exactly when the connection, the
\* side-channel exchange, the attestation configuration, the handshake and
\* the verification of the peer certificate all succeeded; a failure to
\* connect, a failed handshake and a bad server certificate give a status
\* other than 0.
C28_ExitStatusZeroIffVerified ==
    cli.pc = "exit" =>
        /\ cli.status = 0 <=> InLog(cli, "good server cert")
        /\ InLog(cli, "Unable to connect") => cli.status # 0
        /\ InLog(cli, "bad server cert") => cli.status # 0
        /\ (InLog(cli, "SSL_connect") /\ ~InLog(cli, "good server cert")
            /\ ~InLog(cli, "bad server cert")) => cli.status # 0

(***************************************************************************)
(* Claims about the bounds of the arrays of util.c (SpecMask, SpecStart).  *)
(***************************************************************************)
\* C25: attest_util_check_mask reads mask_in only at indexes below
\* mask_in_len (and mask_ref only at indexes below mask_ref_len), whatever
\* the two lengths are.
C25_CheckMaskReadsInBounds ==
    mk.pc = "done" =>
        \A i \in mk.reads : i < Len(mk.mask_in) /\ i < Len(mk.mask_ref)

\* the values of the first n entries of a list, in list order
RECURSIVE ParsedValues(_, _)
ParsedValues(tokens, n) ==
    IF n = 0 \/ tokens = <<>> THEN <<>>
    ELSE <<strtol(Head(tokens))>> \o ParsedValues(Tail(tokens), n - 1)

\* C26: attest_util_parse_pcr_list stores nothing at an index at or above
\* pcr_list_num; a list of more than pcr_list_num entries (none of them
\* negative) gives -ERANGE; on success the first k slots hold the k values
\* of the list in order and the other slots hold -1.
C26_ParsePcrListInBounds ==
    srv.pc = "done" =>
        LET tokens == strsep(srv.pcr_list_str)
            k == Len(tokens)
        IN  /\ srv.beyond = <<>>
            /\ (k > srv.pcr_list_num
                /\ \A j \in 1..k : strtol(tokens[j]) >= 0)
                   => srv.rc = -ERANGE
            /\ srv.rc = 0 =>
                   /\ k <= srv.pcr_list_num
                   /\ srv.pcr_list = ParsedValues(tokens, k)
                         \o [j \in 1..(srv.pcr_list_num - k) |-> -1]

====
